---- MODULE Spec2Model ----
(***************************************************************************)
(* Model of Lib/sandbox/timeseries/addons/filters.py: expmave,             *)
(* running_window and running_mean over (masked) arrays.                   *)
(*                                                                         *)
(* Floating-point numbers are modelled as exact rationals <<num, den>> in  *)
(* lowest terms (den > 0).  An array object is a record                    *)
(*   [dtype, ndim, data, mask]                                             *)
(* where data is a sequence (ndim = 1), a sequence of rows (ndim = 2) or a *)
(* sequence of planes (ndim = 3) and mask is "nomask" or a same-shape      *)
(* structure of booleans (TRUE = missing).  Positions are 1-based here,    *)
(* 0-based in the source.                                                  *)
(***************************************************************************)
EXTENDS Integers, Sequences, FiniteSets, TLC

VARIABLES heap, result, status, call, nconv

vars == <<heap, result, status, call, nconv>>

(* ------------------------------ bounds -------------------------------- *)
MaxLen == 3
MaxRows == 3
MaxPeriod == 3
MaxWidth == 4

Vals == {-1, 2}
Vals2 == {0, 1}
Tols == {<<1, 1000000>>, <<1, 2>>}
WindowTypes == {"boxcar", "triang", "bartlett"}

(* --------------------------- float arithmetic ------------------------- *)
Abs(x) == IF x < 0 THEN -x ELSE x

Min(a, b) == IF a < b THEN a ELSE b

Max(a, b) == IF a < b THEN b ELSE a

RECURSIVE GCD(_, _)
GCD(a, b) == IF b = 0 THEN a ELSE GCD(b, a % b)

Rat(n, d) == LET g == GCD(Abs(n), d) IN <<n \div g, d \div g>>

RAdd(p, q) == Rat(p[1] * q[2] + q[1] * p[2], p[2] * q[2])

RSub(p, q) == Rat(p[1] * q[2] - q[1] * p[2], p[2] * q[2])

RMul(p, q) == Rat(p[1] * q[1], p[2] * q[2])

RDivInt(p, w) == Rat(p[1], p[2] * w)

RLess(p, q) == p[1] * q[2] < q[1] * p[2]

Zero == <<0, 1>>

One == <<1, 1>>

\* C cast of a float to an integer: truncation toward zero
Trunc(q) == IF q[1] >= 0 THEN q[1] \div q[2] ELSE -((-q[1]) \div q[2])

\* conversion of a value to the array's dtype
Cast(dtype, q) == IF dtype = "int" THEN <<Trunc(q), 1>> ELSE q

(* ------------------------ external capabilities ----------------------- *)
\* scipy.signal.get_window(window_type, window_size, fftbins=False)
get_window(window_type, w) ==
  CASE window_type = "boxcar" -> [i \in 1..w |-> One]
    [] window_type = "triang" ->
         [i \in 1..w |->
            LET n == Min(i, w + 1 - i)
            IN IF w % 2 = 1 THEN Rat(2 * n, w + 1) ELSE Rat(2 * n - 1, w)]
    [] window_type = "bartlett" ->
         [i \in 1..w |->
            IF w = 1 THEN One
            ELSE Rat((w - 1) - Abs(2 * (i - 1) - (w - 1)), w - 1)]

\* sum over t in lo..hi of a[t] * b[j - t], 0-based j, 1-based sequences
RECURSIVE ConvSum(_, _, _, _, _)
ConvSum(a, b, j, lo, hi) ==
  IF lo > hi THEN Zero
  ELSE RAdd(RMul(a[lo], b[j - lo + 1]), ConvSum(a, b, j, lo + 1, hi))

\* scipy.signal.convolve(a, b): full linear convolution, len(a)+len(b)-1
convolve(a, b) ==
  [j \in 1..(Len(a) + Len(b) - 1) |->
     ConvSum(a, b, j, Max(1, j - Len(b) + 1), Min(Len(a), j))]

(* ----------------------------- Python glue ---------------------------- *)
\* the element of a one-element set.  The({F(v) : v \in {e}}) is F applied to
\* the value of e, with e evaluated once: a Python assignment evaluates its
\* right-hand side once and binds the name to the value
The(S) == CHOOSE x \in S : TRUE

\* start/stop of a Python slice bound s on a sequence of length n
SliceIndex(s, n) == IF s < 0 THEN Max(s + n, 0) ELSE Min(s, n)

\* seq[lo:hi]
PySlice(seq, lo, hi) ==
  LET a == SliceIndex(lo, Len(seq))
      b == SliceIndex(hi, Len(seq))
  IN [j \in 1..Max(b - a, 0) |-> seq[a + j]]

\* the 0-based positions selected by seq[:k] and by seq[-k:], 1-based here
HeadRows(k, n) == 1..SliceIndex(k, n)

TailRows(k, n) == (SliceIndex(-k, n) + 1)..n

Column(mat, i) == [r \in 1..Len(mat) |-> mat[r][i]]

SetColumn(mat, i, col) == [r \in 1..Len(mat) |-> [mat[r] EXCEPT ![i] = col[r]]]

\* maskedarray.nomask: the "no mask present" sentinel
nomask == [present |-> FALSE, bits |-> <<>>]

MaskOf(bits) == [present |-> TRUE, bits |-> bits]

NoObject == [dtype |-> "none", ndim |-> 0, data |-> <<>>, mask |-> nomask]

\* maskedarray.getmask(a): the mask of a, nomask when it has none
getmask(a) == a.mask

\* N.zeros(data.shape, bool_)
RECURSIVE ZerosLike(_, _)
ZerosLike(x, nd) ==
  IF nd = 0 THEN FALSE ELSE [i \in 1..Len(x) |-> ZerosLike(x[i], nd - 1)]

\* maskedarray.getmaskarray(a): the mask as a full boolean array
getmaskarray(a) ==
  IF a.mask.present THEN a.mask.bits ELSE ZerosLike(a.data, a.ndim)

\* data.filled(0) of a rank-1 masked array: a plain array, missing entries
\* replaced by the fill value; the returned array carries no mask
filled(a, v) ==
  [dtype |-> a.dtype, ndim |-> a.ndim,
   data |-> [i \in 1..Len(a.data) |->
               IF a.mask.present /\ a.mask.bits[i] THEN v ELSE a.data[i]],
   mask |-> nomask]

\* a call's outcome: the heap after it, the returned reference, how it ended
Return(h, ref, cnt) ==
  [heap |-> h, ret |-> ref, status |-> "returned", nconv |-> cnt]

Raise(h, err, cnt) ==
  [heap |-> [h EXCEPT !["new"] = NoObject], ret |-> "none",
   status |-> err, nconv |-> cnt]

(* ------------------------------ expmave ------------------------------- *)
\* k = 2./float(n + 1)
SmoothingFactor(n) == Rat(2, n + 1)

\* mutant of expmave_sub: the operands exchanged, a + k * (b - a)
expmave_sub_exchanged(k, a, b) == RAdd(a, RMul(k, RSub(b, a)))

\* expmave_sub(a, b) = b + k * (a - b)
expmave_sub(k, a, b) == RAdd(b, RMul(k, RSub(a, b)))

RECURSIVE AccumulateAt(_, _, _)
AccumulateAt(k, seq, i) ==
  IF i = 1 THEN seq[1]
  ELSE expmave_sub(k, AccumulateAt(k, seq, i - 1), seq[i])

\* N.frompyfunc(expmave_sub, 2, 1).accumulate(x); x is a tagged value,
\* [kind |-> "array", v |-> <sequence>] or [kind |-> "scalar", v |-> <number>];
\* accumulate cannot run on a scalar (zero-dimensional) operand
accumulate(k, x) ==
  IF x.kind = "scalar" THEN [ok |-> FALSE, v |-> <<>>]
  ELSE [ok |-> TRUE, v |-> [i \in 1..Len(x.v) |-> AccumulateAt(k, x.v, i)]]

AsArray(seq) == [kind |-> "array", v |-> seq]

\* .astype(data.dtype)
astype(seq, dtype) == [i \in 1..Len(seq) |-> Cast(dtype, seq[i])]

\* N.logical_not(m).astype(float_): of nomask (the scalar False) the scalar 1.0
logical_not_float(m) ==
  IF ~m.present THEN [kind |-> "scalar", v |-> One]
  ELSE [kind |-> "array",
        v |-> [i \in 1..Len(m.bits) |-> IF m.bits[i] THEN Zero ELSE One]]

\* result[marker > tol] = masked
MaskWhereGreater(res, marker, tol) ==
  [res EXCEPT !.mask =
     MaskOf([i \in 1..Len(res.data) |-> RLess(tol, marker[i])])]

expmave(h, ref, n, tol) ==
  LET data0 == h[ref]
      ismasked == data0.mask.present
      k == SmoothingFactor(n)
      data == IF ismasked THEN filled(data0, Zero) ELSE data0
      acc == accumulate(k, AsArray(data.data))
      res == [dtype |-> data.dtype, ndim |-> data.ndim,
              data |-> astype(acc.v, data.dtype), mask |-> nomask]
  IN IF ~ismasked THEN Return([h EXCEPT !["new"] = res], "new", 0)
     ELSE LET unmasked == logical_not_float(getmask(data))
              conf == accumulate(k, unmasked)
          IN IF ~conf.ok THEN Raise(h, "TypeError", 0)
             ELSE LET marker == [i \in 1..Len(conf.v) |-> RSub(One, conf.v[i])]
                  IN Return([h EXCEPT !["new"] =
                                 MaskWhereGreater(res, marker, tol)], "new", 0)

(* --------------------------- running_window --------------------------- *)
\* mutant of marray: copy=False, the caller's object itself
marray_nocopy(h, ref) == [heap |-> h, ref |-> ref]

\* marray(data, copy=True, subok=True): a new object holding a copy of the
\* values and of the mask
marray(h, ref) == [heap |-> [h EXCEPT !["new"] = h[ref]], ref |-> "new"]

\* x.flat = values: element-wise store into the existing buffer of x, each
\* value converted to the buffer's dtype (values cycle if too few)
FlatAssign(dtype, n, values) ==
  [i \in 1..n |-> Cast(dtype, values[((i - 1) % Len(values)) + 1])]

\* convolve(x, window)[k:n+k] / float(window_size)
FilterValues(x, window, n, k, window_size) ==
  The({[i \in 1..Len(c) |-> RDivInt(c[i], window_size)] :
         c \in {PySlice(convolve(x, window), k, n + k)}})

\* (convolve(mask, window) > 0)[k:n+k]
FilterMask(m, window, n, k) ==
  The({PySlice([j \in 1..Len(c) |-> RLess(Zero, c[j])], k, n + k) :
         c \in {convolve([i \in 1..Len(m) |-> IF m[i] THEN One ELSE Zero],
                         window)}})

\* the ndim == 1 branch: the values are stored first, then the mask
Branch1D(d, window, n, k, window_size) ==
  The({[d1 EXCEPT !.mask =
           MaskOf(FilterMask(getmaskarray(d1), window, n, k))] :
         d1 \in {[d EXCEPT !.data = values] :
                   values \in {FlatAssign(d.dtype, Len(d.data),
                                  FilterValues(d.data, window, n, k,
                                               window_size))}}})

\* mutant of ColumnStep: the mask of column i taken from the first column
ColumnStepFirstMask(d, i, window, n, k, window_size) ==
  The({The({[d1 EXCEPT !.mask = MaskOf(SetColumn(d1.mask.bits, i, mcol))] :
              mcol \in {FilterMask(Column(d1.mask.bits, 1), window, n, k)}}) :
         d1 \in {[d EXCEPT !.data = SetColumn(d.data, i, values)] :
                   values \in {FlatAssign(d.dtype, Len(d.data),
                                  FilterValues(Column(d.data, i), window, n,
                                               k, window_size))}}})

\* one pass of the loop body of the ndim == 2 branch, on column i
ColumnStep(d, i, window, n, k, window_size) ==
  The({The({[d1 EXCEPT !.mask = MaskOf(SetColumn(d1.mask.bits, i, mcol))] :
              mcol \in {FilterMask(Column(d1.mask.bits, i), window, n, k)}}) :
         d1 \in {[d EXCEPT !.data = SetColumn(d.data, i, values)] :
                   values \in {FlatAssign(d.dtype, Len(d.data),
                                  FilterValues(Column(d.data, i), window, n,
                                               k, window_size))}}})

\* for i in range(data.shape[-1]): columns i..ncols
RECURSIVE Branch2D(_, _, _, _, _, _)
Branch2D(d, i, window, n, k, window_size) ==
  IF i > Len(d.data[1]) THEN d
  ELSE The({Branch2D(d1, i + 1, window, n, k, window_size) :
              d1 \in {ColumnStep(d, i, window, n, k, window_size)}})

RECURSIVE AllTrue(_, _)
AllTrue(x, nd) ==
  IF nd = 0 THEN TRUE ELSE [i \in 1..Len(x) |-> AllTrue(x[i], nd - 1)]

\* data._mask[:k] = data._mask[-k:] = True
MaskBorders(d, k) ==
  LET n == Len(d.mask.bits)
      rows == HeadRows(k, n) \cup TailRows(k, n)
  IN [d EXCEPT !.mask =
        MaskOf([r \in 1..n |->
                  IF r \in rows THEN AllTrue(d.mask.bits[r], d.ndim - 1)
                  ELSE d.mask.bits[r]])]

\* mutant of Dispatch: no else branch, a rank above 2 falls through to the
\* border assignment and the return
DispatchNoRaise(h, ref, d, window, n, k, window_size) ==
  IF d.ndim = 1
  THEN Return([h EXCEPT ![ref] =
                  The({MaskBorders(d1, k) :
                         d1 \in {Branch1D(d, window, n, k, window_size)}})],
              ref, 2)
  ELSE IF d.ndim = 2
  THEN Return([h EXCEPT ![ref] =
                  The({MaskBorders(d1, k) :
                         d1 \in {Branch2D(d, 1, window, n, k, window_size)}})],
              ref, 2 * Len(d.data[1]))
  ELSE Return([h EXCEPT ![ref] = MaskBorders(d, k)], ref, 0)

\* the if / elif / else on data.ndim, then the border assignment and return
Dispatch(h, ref, d, window, n, k, window_size) ==
  IF d.ndim = 1
  THEN Return([h EXCEPT ![ref] =
                  The({MaskBorders(d1, k) :
                         d1 \in {Branch1D(d, window, n, k, window_size)}})],
              ref, 2)
  ELSE IF d.ndim = 2
  THEN Return([h EXCEPT ![ref] =
                  The({MaskBorders(d1, k) :
                         d1 \in {Branch2D(d, 1, window, n, k, window_size)}})],
              ref, 2 * Len(d.data[1]))
  ELSE Raise(h, "ValueError", 0)

running_window(h, ref, window_type, window_size) ==
  LET c == marray(h, ref)
      d0 == c.heap[c.ref]
      d == IF ~d0.mask.present
           THEN [d0 EXCEPT !.mask = MaskOf(ZerosLike(d0.data, d0.ndim))]
           ELSE d0
      window == get_window(window_type, window_size)
  IN Dispatch([c.heap EXCEPT ![c.ref] = d], c.ref, d, window,
              Len(d.data), window_size \div 2, window_size)

running_mean(h, ref, width) == running_window(h, ref, "boxcar", width)

(* --------------------------- the state machine ------------------------ *)
Dtypes == {"int", "float"}

AsFloats(vals) == [i \in 1..Len(vals) |-> <<vals[i], 1>>]

NoCall == [op |-> "none", n |-> 0, tol |-> Zero,
           window_type |-> "none", window_size |-> 0]

Start(obj) ==
  /\ heap = [arg |-> obj, new |-> NoObject]
  /\ result = "none"
  /\ status = "idle"
  /\ call = NoCall
  /\ nconv = 0

\* rank-1 arrays, with no mask or with any mask
InitRank1 ==
  \E dtype \in Dtypes, m \in 1..MaxLen :
    \E vals \in [1..m -> Vals], present \in BOOLEAN, bits \in [1..m -> BOOLEAN] :
      /\ present \/ \A i \in 1..m : ~bits[i]
      /\ Start([dtype |-> dtype, ndim |-> 1, data |-> AsFloats(vals),
                mask |-> IF present THEN MaskOf(bits) ELSE nomask])

\* the two arrays the documentation's examples use
InitScenario ==
  \E dtype \in Dtypes, present \in BOOLEAN,
     vals \in {<<1, 2, 3, 4, 5>>, <<1, 1, 1, 1, 1>>} :
    Start([dtype |-> dtype, ndim |-> 1, data |-> AsFloats(vals),
           mask |-> IF present THEN MaskOf([i \in 1..Len(vals) |-> FALSE])
                    ELSE nomask])

\* rank-2 arrays of two columns, the second constant or a ramp, with no
\* mask, an all-valid mask, or a mask with one missing entry at (mr, mc)
InitRank2 ==
  \E dtype \in Dtypes, m \in 1..MaxRows :
    \E a \in [1..m -> Vals2], b \in {[r \in 1..m |-> 2], [r \in 1..m |-> r]},
       present \in BOOLEAN, mr \in 0..m, mc \in 1..2 :
      /\ present \/ mr = 0
      /\ mr = 0 => mc = 1
      /\ Start([dtype |-> dtype, ndim |-> 2,
                data |-> [r \in 1..m |-> <<<<a[r], 1>>, <<b[r], 1>>>>],
                mask |-> IF present
                         THEN MaskOf([r \in 1..m |->
                                        [c \in 1..2 |-> r = mr /\ c = mc]])
                         ELSE nomask])

\* rank-3 arrays of shape (m, 1, 1)
InitRank3 ==
  \E dtype \in Dtypes, m \in 1..MaxRows :
    \E a \in [1..m -> Vals2], present \in BOOLEAN :
      Start([dtype |-> dtype, ndim |-> 3,
             data |-> [r \in 1..m |-> << << <<a[r], 1>> >> >>],
             mask |-> IF present
                      THEN MaskOf([r \in 1..m |-> << <<r = 1>> >>])
                      ELSE nomask])

Init == InitRank1 \/ InitScenario \/ InitRank2 \/ InitRank3

Finish(o, c) ==
  /\ heap' = o.heap
  /\ result' = o.ret
  /\ status' = o.status
  /\ nconv' = o.nconv
  /\ call' = c

ExpmaveCall ==
  \E n \in 1..MaxPeriod, tol \in Tols :
    /\ status = "idle"
    /\ heap["arg"].ndim = 1
    /\ \E o \in {expmave(heap, "arg", n, tol)} :
         Finish(o, [NoCall EXCEPT !.op = "expmave", !.n = n, !.tol = tol])

RunningWindowCall ==
  \E window_type \in WindowTypes, window_size \in 1..MaxWidth :
    /\ status = "idle"
    /\ \E o \in {running_window(heap, "arg", window_type, window_size)} :
         Finish(o, [NoCall EXCEPT !.op = "running_window",
                                  !.window_type = window_type,
                                  !.window_size = window_size])

RunningMeanCall ==
  \E width \in 1..MaxWidth :
    /\ status = "idle"
    /\ \E o \in {running_mean(heap, "arg", width)} :
         Finish(o, [NoCall EXCEPT !.op = "running_mean",
                                  !.window_type = "boxcar",
                                  !.window_size = width])

Next == ExpmaveCall \/ RunningWindowCall \/ RunningMeanCall

Spec == Init /\ [][Next]_vars

(* ------------------------ vocabulary of the claims -------------------- *)
Input == heap["arg"]

Out == heap[result]

Called(ops) == status # "idle" /\ call.op \in ops

Returned(ops) == status = "returned" /\ call.op \in ops

IsMissing(a, i) == a.mask.present /\ a.mask.bits[i]

AllValid(a) == \A i \in 1..Len(a.data) : ~IsMissing(a, i)

MissingSet(a) == {i \in 1..Len(a.data) : IsMissing(a, i)}

HalfWidth == call.window_size \div 2

\* sum of seq[lo..hi]
RECURSIVE RangeSum(_, _, _)
RangeSum(seq, lo, hi) ==
  IF lo > hi THEN Zero ELSE RAdd(seq[lo], RangeSum(seq, lo + 1, hi))

\* x rounded to three decimals, times 1000 (x >= 0)
Round3(x) == (2000 * x[1] + x[2]) \div (2 * x[2])

\* the confidence sequence of the input: 1 at valid, 0 at missing positions
Confidence(a) ==
  [i \in 1..Len(a.data) |-> IF IsMissing(a, i) THEN Zero ELSE One]

\* leak[i] = 1 - conf[i]
Leak(a, n, i) == RSub(One, AccumulateAt(SmoothingFactor(n), Confidence(a), i))

RLeq(p, q) == ~RLess(q, p)

\* column c of a rank-2 array, as a rank-1 array
ColumnArray(a, c) ==
  [dtype |-> a.dtype, ndim |-> 1, data |-> Column(a.data, c),
   mask |-> IF a.mask.present THEN MaskOf(Column(a.mask.bits, c)) ELSE nomask]

\* what the rank-1 path returns for the array a
Rank1Result(a, window_type, window_size) ==
  LET o == running_window([arg |-> a, new |-> NoObject], "arg",
                          window_type, window_size)
  IN o.heap[o.ret]

(* -------------------------------- claims ------------------------------ *)

\* C1 (as claimed, for inputs with at least 2*(w//2) positions): after
\* running_mean(data, w) on an all-valid rank-1 input of length m, exactly
\* 2*(w//2) positions are missing, the first w//2 and the last w//2.
C1_Claimed ==
  (/\ Returned({"running_mean"})
   /\ Input.ndim = 1
   /\ AllValid(Input)
   /\ 2 * HalfWidth <= Len(Input.data))
  => LET m == Len(Input.data)
     IN /\ Cardinality(MissingSet(Out)) = 2 * HalfWidth
        /\ MissingSet(Out) = (1..HalfWidth) \cup ((m - HalfWidth + 1)..m)

\* C2 (as claimed, for the boxcar window): when the only missing input of a
\* rank-1 array is at position i, every output position within k = w//2 of i
\* is missing after running_window, as are the first k and last k positions.
C2_Claimed ==
  (/\ Returned({"running_window"})
   /\ call.window_type = "boxcar"
   /\ Input.ndim = 1
   /\ Cardinality(MissingSet(Input)) = 1)
  => LET m == Len(Input.data)
         k == HalfWidth
     IN \A i \in MissingSet(Input) :
          /\ \A j \in Max(1, i - k)..Min(m, i + k) : IsMissing(Out, j)
          /\ \A j \in (1..Min(k, m)) \cup (Max(1, m - k + 1)..m) :
                IsMissing(Out, j)

\* C3 (as claimed): for an input of expmave that carries a mask, the call
\* returns and output position i is missing exactly when leak[i] > tol; so
\* a missing first input (tol < 1) gives a missing first output.
C3_Claimed ==
  (/\ Called({"expmave"})
   /\ Input.mask.present)
  => /\ status = "returned"
     /\ \A i \in 1..Len(Input.data) :
          IsMissing(Out, i) <=> RLess(call.tol, Leak(Input, call.n, i))

\* C4 (as claimed, for float data): for an input with no missing values and
\* a period n >= 1, expmave returns the values of the recurrence
\* acc[0] = data[0], acc[t] = data[t] + k*(acc[t-1] - data[t]), of the
\* input's length, with no position missing.
C4_Claimed ==
  (/\ Called({"expmave"})
   /\ Input.dtype = "float"
   /\ AllValid(Input))
  => /\ status = "returned"
     /\ Len(Out.data) = Len(Input.data)
     /\ \A t \in 1..Len(Input.data) :
          /\ Out.data[t] = AccumulateAt(SmoothingFactor(call.n), Input.data, t)
          /\ ~IsMissing(Out, t)

Scenario5 == AsFloats(<<1, 2, 3, 4, 5>>)

\* C5 (as claimed, for a plain float array): for data = [1,2,3,4,5] with no
\* missing values and n = 2, expmave returns values that round to
\* [1, 1.667, 2.556, 3.519, 4.506] at three decimals, every position valid.
C5_Claimed ==
  (/\ Called({"expmave"})
   /\ call.n = 2
   /\ Input.data = Scenario5
   /\ Input.dtype = "float"
   /\ ~Input.mask.present)
  => /\ status = "returned"
     /\ [t \in 1..5 |-> Round3(Out.data[t])] = <<1000, 1667, 2556, 3519, 4506>>
     /\ AllValid(Out)

\* C6 (as claimed): after running_mean(data, w) on an all-valid rank-1 input,
\* every output position i that is not missing holds the sum of the w inputs
\* at 0-based positions i+k-w+1 .. i+k (k = w//2), divided by w.
C6_Claimed ==
  (/\ Returned({"running_mean"})
   /\ Input.ndim = 1
   /\ AllValid(Input))
  => \A i \in 1..Len(Input.data) :
       ~IsMissing(Out, i) =>
         Out.data[i] =
           RDivInt(RangeSum(Input.data,
                            i + HalfWidth - call.window_size + 1,
                            i + HalfWidth),
                   call.window_size)

\* C7: running_window on a rank-2 input returns, column by column, in values
\* and in mask, what running_window returns on that column as a rank-1 input.
C7_ColumnsIndependent ==
  (/\ Returned({"running_window", "running_mean"})
   /\ Input.ndim = 2)
  => \A c \in 1..2 :
       LET r == Rank1Result(ColumnArray(Input, c),
                            call.window_type, call.window_size)
       IN /\ Column(Out.data, c) = r.data
          /\ Column(Out.mask.bits, c) = r.mask.bits

C7_Witness ==
  /\ Returned({"running_window"})
  /\ call.window_type = "triang"
  /\ Input.ndim = 2
  /\ \E r \in 1..Len(Out.data) :
       /\ Out.mask.bits[r][1]
       /\ ~Out.mask.bits[r][2]
       /\ Out.data[r][1] # Out.data[r][2]

C9_InputUnchanged ==
  [][heap'["arg"] = heap["arg"] /\ result' # "arg"]_vars

C9_Witness ==
  /\ Returned({"running_window"})
  /\ ~Input.mask.present
  /\ Out.mask.present
  /\ Out.data # Input.data

====
